---- MODULE Spec2Model ----
(***************************************************************************)
(* Model of fm/pretrained.py: load_model_and_alphabet_core and the key     *)
(* rewriting lambdas (pra, prs, prs1, prs2, prs3) it defines.              *)
(*                                                                         *)
(* Keys are real strings; Python's str.split, str.join, str.replace and    *)
(* the `in` operator are computed character by character.  A dict is an    *)
(* insertion-ordered sequence of <<key, value>> pairs.  A tensor is a      *)
(* reference into `heap`, so that the aliasing between the checkpoint's    *)
(* dict and the rewritten state dict is visible.                           *)
(***************************************************************************)
EXTENDS Integers, Sequences, FiniteSets, TLC

VARIABLES
    pc,               \* position inside load_model_and_alphabet_core
    model_data_model, \* model_data["model"]: the primary's parameter dict
    model_data_args,  \* vars(model_data["args"]): the primary's configuration
    regression_data,  \* [present, model, args]; present is FALSE for None
    heap,             \* tensor id -> rows of the tensor
    orig_model,       \* model_data["model"] as it was when the call started
    orig_heap,        \* heap as it was when the call started
    alphabet,         \* "None" or the architecture the Alphabet was built for
    model_args,       \* rewritten configuration dict
    model_state,      \* rewritten parameter dict
    model_type,       \* "None", "ProteinBertModel" or "MSATransformer"
    expected_keys,    \* set(model.state_dict().keys())
    found_keys,       \* set(model_state.keys())
    warned,           \* warnings.warn was called
    strict,           \* "None" or the strict flag given to load_state_dict
    assigned,         \* parameters of the returned model: key -> rows
    outcome,          \* "running", "returned", "ValueError", "KeyError", "RuntimeError"
    trace,            \* the steps executed so far, in order
    rw_key,           \* rewrite harness: the key under rewrite
    rw_out,           \* rewrite harness: the current result
    rw_op             \* rewrite harness: what has been applied to rw_key

loadVars == <<pc, model_data_model, model_data_args, regression_data, heap,
              orig_model, orig_heap, alphabet, model_args, model_state,
              model_type, expected_keys, found_keys, warned, strict,
              assigned, outcome, trace>>
rwVars == <<rw_key, rw_out, rw_op>>
vars == <<loadVars, rwVars>>

----------------------------------------------------------------------------
(* Bounds *)

MaxPrimaryKeys == 2
MaxAuxKeys == 1
MaxFrags == 3
NumRows == 2

(* alphabet.mask_idx: a row index of embed_tokens.weight *)
MaskIdx == 2

----------------------------------------------------------------------------
(* Python str operations *)

\* str.find, 1-based, 0 when absent
Find(s, sub) ==
    LET cands == {j \in 1..(Len(s) - Len(sub) + 1) :
                    SubSeq(s, j, j + Len(sub) - 1) = sub}
    IN IF cands = {} THEN 0
       ELSE CHOOSE j \in cands : \A k \in cands : j <= k

\* sub in s
In(sub, s) == Find(s, sub) # 0

RECURSIVE Split(_, _)
\* s.split(sep)
Split(s, sep) ==
    LET j == Find(s, sep)
    IN IF j = 0 THEN <<s>>
       ELSE <<SubSeq(s, 1, j - 1)>> \o Split(SubSeq(s, j + Len(sep), Len(s)), sep)

RECURSIVE Join(_)
\* ''.join(parts)
Join(parts) ==
    IF parts = <<>> THEN "" ELSE Head(parts) \o Join(Tail(parts))

RECURSIVE Replace(_, _, _)
\* s.replace(old, new)
Replace(s, old, new) ==
    LET j == Find(s, old)
    IN IF j = 0 THEN s
       ELSE SubSeq(s, 1, j - 1) \o new
            \o Replace(SubSeq(s, j + Len(old), Len(s)), old, new)

\* ''.join(s.split(sep)[1:] if marker in s else s)
SplitJoin(s, sep, marker) ==
    IF In(marker, s) THEN Join(Tail(Split(s, sep))) ELSE s

----------------------------------------------------------------------------
(* The rewriting lambdas *)

\* roberta_large and msa_transformer: pra
praEncoder(s) == SplitJoin(s, "encoder_", "encoder")
\* roberta_large and msa_transformer: prs1
prs1(s) == SplitJoin(s, "encoder.", "encoder")
\* roberta_large and msa_transformer: prs2
prs2(s) == SplitJoin(s, "sentence_encoder.", "sentence_encoder")
\* protein_bert_base: pra
praDecoder(s) == SplitJoin(s, "decoder_", "decoder")
\* protein_bert_base: prs
prs(s) == SplitJoin(s, "decoder.", "decoder")

prs3RowOnly(s) == Replace(s, "row", "column")
\* msa_transformer: prs3
prs3(s) ==
    IF In("row", s) THEN Replace(s, "row", "column")
    ELSE Replace(s, "column", "row")

\* the parameter-key rewrite of each architecture
RewriteRobertaLarge(s) == prs1(prs2(s))
RewriteProteinBertBase(s) == prs(s)
RewriteMsaTransformer(s) == prs1(prs2(prs3(s)))

----------------------------------------------------------------------------
(* Python dict operations on insertion-ordered sequences of pairs *)

Keys(d) == {d[i][1] : i \in 1..Len(d)}
Get(d, k) == LET i == CHOOSE i \in 1..Len(d) : d[i][1] = k IN d[i][2]

\* d[k] = v
DictSet(d, k, v) ==
    IF k \in Keys(d)
    THEN [i \in 1..Len(d) |-> IF d[i][1] = k THEN <<k, v>> ELSE d[i]]
    ELSE Append(d, <<k, v>>)

RECURSIVE DictFromItems(_)
\* {k: v for (k, v) in items}
DictFromItems(items) ==
    IF items = <<>> THEN <<>>
    ELSE LET n == Len(items)
         IN DictSet(DictFromItems(SubSeq(items, 1, n - 1)),
                    items[n][1], items[n][2])

RECURSIVE DictUpdateKeepOld(_, _)
DictUpdateKeepOld(d, other) ==
    IF other = <<>> THEN d
    ELSE LET n == Len(other)
             r == DictUpdateKeepOld(d, SubSeq(other, 1, n - 1))
         IN IF other[n][1] \in Keys(r) THEN r
            ELSE Append(r, other[n])

RECURSIVE DictUpdate(_, _)
\* d.update(other)
DictUpdate(d, other) ==
    IF other = <<>> THEN d
    ELSE LET n == Len(other)
         IN DictSet(DictUpdate(d, SubSeq(other, 1, n - 1)),
                    other[n][1], other[n][2])

----------------------------------------------------------------------------
(* Tensors *)

ZeroRowNoop(h, id, r) == h
\* tensor[r].zero_()
ZeroRow(h, id, r) ==
    [h EXCEPT ![id] = [q \in 1..NumRows |-> IF q = r THEN 0 ELSE h[id][q]]]

\* value of a parameter the model initialised itself
InitRows == [q \in 1..NumRows |-> -1]

----------------------------------------------------------------------------
(* The architecture branches and the key reconciliation *)

KnownArchs == {"roberta_large", "protein_bert_base", "msa_transformer"}

ResolveDefaultBert(arch) ==
    IF arch = "roberta_large" THEN "roberta_large"
    ELSE IF arch = "msa_transformer" THEN "msa_transformer"
    ELSE "protein_bert_base"
\* the if / elif / else chain on model_data["args"].arch
Resolve(arch) ==
    IF arch = "roberta_large" THEN "roberta_large"
    ELSE IF arch = "protein_bert_base" THEN "protein_bert_base"
    ELSE IF arch = "msa_transformer" THEN "msa_transformer"
    ELSE "unknown"

MaskStepLenient(ms, h) ==
    IF "embed_tokens.weight" \in Keys(ms)
    THEN [raised |-> FALSE,
          heap |-> ZeroRow(h, Get(ms, "embed_tokens.weight"), MaskIdx)]
    ELSE [raised |-> FALSE, heap |-> h]
\* model_state["embed_tokens.weight"][alphabet.mask_idx].zero_()
MaskStep(ms, h) ==
    IF "embed_tokens.weight" \in Keys(ms)
    THEN [raised |-> FALSE,
          heap |-> ZeroRow(h, Get(ms, "embed_tokens.weight"), MaskIdx)]
    ELSE [raised |-> TRUE, heap |-> h]

ExpectedMissing ==
    {"contact_head.regression.weight", "contact_head.regression.bias"}

\* missing = (expected_keys - found_keys) - expected_missing
MissingKeys(expected, found) == (expected \ found) \ ExpectedMissing

UnexpectedKeysNone(expected, found) == {}
\* unexpected = found_keys - expected_keys
UnexpectedKeys(expected, found) == found \ expected

RegressionNotFoundAll(found) == \A k \in ExpectedMissing : k \notin found
\* if expected_missing - found_keys
RegressionNotFound(found) == (ExpectedMissing \ found) # {}

\* load_state_dict(strict=True) raises on any missing or unexpected key
StrictMismatch(expected, found) ==
    (expected \ found) # {} \/ (found \ expected) # {}

\* the parameters of the model after load_state_dict copied the state in
AssignedFrom(expected, ms, h) ==
    [k \in expected |-> IF k \in Keys(ms) THEN h[Get(ms, k)] ELSE InitRows]

----------------------------------------------------------------------------
(* Inputs of a call *)

RawKeys ==
    {"encoder.sentence_encoder.embed_tokens.weight",
     "embed_tokens.weight",
     "decoder.embed_tokens.weight",
     "encoder.row.w",
     "contact_head.regression.weight",
     "contact_head.regression.bias"}

\* names a constructed model may enumerate in state_dict()
CanonicalKeys ==
    {"embed_tokens.weight", "column.w",
     "contact_head.regression.weight", "contact_head.regression.bias"}

Archs == KnownArchs \cup {"esm_other"}

DistinctSeqs(S, max) ==
    UNION {{s \in [1..n -> S] : \A i, j \in 1..n : s[i] = s[j] => i = j} :
           n \in 0..max}

PrimaryId(i) == <<"primary", i>>
AuxId(i) == <<"auxiliary", i>>
BlobIds ==
    {PrimaryId(i) : i \in 1..MaxPrimaryKeys} \cup {AuxId(i) : i \in 1..MaxAuxKeys}

\* every tensor of the two checkpoints starts with non-zero rows
InitHeap ==
    [id \in BlobIds |->
        [q \in 1..NumRows |-> IF id[1] = "primary" THEN id[2] ELSE 10 + id[2]]]

ArgsOf(arch, tag) ==
    << <<"arch", arch>>, <<"encoder_embed_dim", tag>>, <<"decoder_embed_dim", tag>> >>

NoRegression == [present |-> FALSE, model |-> <<>>, args |-> <<>>]

Arch == Get(model_data_args, "arch")

Idle ==
    /\ alphabet = "None"
    /\ model_args = <<>>
    /\ model_state = <<>>
    /\ model_type = "None"
    /\ expected_keys = {}
    /\ found_keys = {}
    /\ warned = FALSE
    /\ strict = "None"
    /\ assigned = <<>>
    /\ outcome = "running"
    /\ trace = <<>>

Init ==
    /\ pc = "start"
    /\ \E ks \in DistinctSeqs(RawKeys, MaxPrimaryKeys) :
          model_data_model = [i \in 1..Len(ks) |-> <<ks[i], PrimaryId(i)>>]
    /\ \E arch \in Archs : model_data_args = ArgsOf(arch, "primary")
    /\ \/ regression_data = NoRegression
       \/ \E ks \in DistinctSeqs(RawKeys, MaxAuxKeys) :
             regression_data =
                [present |-> TRUE,
                 model |-> [i \in 1..Len(ks) |-> <<ks[i], AuxId(i)>>],
                 args |-> ArgsOf("aux_arch", "auxiliary")]
    /\ heap = InitHeap
    /\ orig_model = model_data_model
    /\ orig_heap = heap
    /\ Idle
    /\ rw_key = ""
    /\ rw_out = ""
    /\ rw_op = "idle"

----------------------------------------------------------------------------
(* load_model_and_alphabet_core, statement by statement *)

\* if regression_data is not None: model_data["model"].update(...)
Merge ==
    /\ pc = "start"
    /\ model_data_model' =
          IF regression_data.present
          THEN DictUpdate(model_data_model, regression_data.model)
          ELSE model_data_model
    /\ pc' = "alphabet"
    /\ trace' = Append(trace, "merge")
    /\ UNCHANGED <<model_data_args, regression_data, heap, orig_model,
                   orig_heap, alphabet, model_args, model_state, model_type,
                   expected_keys, found_keys, warned, strict, assigned,
                   outcome, rwVars>>

\* alphabet = fm.Alphabet.from_architecture(model_data["args"].arch, theme)
BuildAlphabet ==
    /\ pc = "alphabet"
    /\ alphabet' = Arch
    /\ pc' = "resolve"
    /\ trace' = Append(trace, "alphabet")
    /\ UNCHANGED <<model_data_model, model_data_args, regression_data, heap,
                   orig_model, orig_heap, model_args, model_state, model_type,
                   expected_keys, found_keys, warned, strict, assigned,
                   outcome, rwVars>>

UpgradeFrame ==
    UNCHANGED <<model_data_model, model_data_args, regression_data, heap,
                orig_model, orig_heap, alphabet, expected_keys, found_keys,
                warned, strict, assigned, outcome, rwVars>>

UpgradeRobertaLarge ==
    /\ pc = "resolve"
    /\ Resolve(Arch) = "roberta_large"
    /\ model_args' = DictFromItems([i \in 1..Len(model_data_args) |->
              <<praEncoder(model_data_args[i][1]), model_data_args[i][2]>>])
    /\ model_state' = DictFromItems([i \in 1..Len(model_data_model) |->
              <<RewriteRobertaLarge(model_data_model[i][1]), model_data_model[i][2]>>])
    /\ model_type' = "ProteinBertModel"
    /\ pc' = "mask"
    /\ trace' = Append(trace, "rewrite")
    /\ UpgradeFrame

\* the token-drop line of the roberta_large branch
ZeroMaskRow ==
    /\ pc = "mask"
    /\ LET r == MaskStep(model_state, heap)
       IN /\ heap' = r.heap
          /\ pc' = IF r.raised THEN "done" ELSE "construct"
          /\ outcome' = IF r.raised THEN "KeyError" ELSE outcome
    /\ trace' = Append(trace, "mask")
    /\ UNCHANGED <<model_data_model, model_data_args, regression_data,
                   orig_model, orig_heap, alphabet, model_args, model_state,
                   model_type, expected_keys, found_keys, warned, strict,
                   assigned, rwVars>>

UpgradeProteinBertBase ==
    /\ pc = "resolve"
    /\ Resolve(Arch) = "protein_bert_base"
    /\ model_args' = DictFromItems([i \in 1..Len(model_data_args) |->
              <<praDecoder(model_data_args[i][1]), model_data_args[i][2]>>])
    /\ model_state' = DictFromItems([i \in 1..Len(model_data_model) |->
              <<RewriteProteinBertBase(model_data_model[i][1]), model_data_model[i][2]>>])
    /\ model_type' = "ProteinBertModel"
    /\ pc' = "construct"
    /\ trace' = Append(trace, "rewrite")
    /\ UpgradeFrame

UpgradeMsaTransformer ==
    /\ pc = "resolve"
    /\ Resolve(Arch) = "msa_transformer"
    /\ model_args' = DictFromItems([i \in 1..Len(model_data_args) |->
              <<praEncoder(model_data_args[i][1]), model_data_args[i][2]>>])
    /\ model_state' = DictFromItems([i \in 1..Len(model_data_model) |->
              <<RewriteMsaTransformer(model_data_model[i][1]), model_data_model[i][2]>>])
    /\ model_type' = "MSATransformer"
    /\ pc' = "construct"
    /\ trace' = Append(trace, "rewrite")
    /\ UpgradeFrame

\* raise ValueError("Unknown architecture selected")
UnknownArchitecture ==
    /\ pc = "resolve"
    /\ Resolve(Arch) = "unknown"
    /\ outcome' = "ValueError"
    /\ pc' = "done"
    /\ trace' = Append(trace, "raise")
    /\ UNCHANGED <<model_data_model, model_data_args, regression_data, heap,
                   orig_model, orig_heap, alphabet, model_args, model_state,
                   model_type, expected_keys, found_keys, warned, strict,
                   assigned, rwVars>>

\* model = model_type(...); expected_keys = ...; found_keys = ...
ConstructModel ==
    /\ pc = "construct"
    /\ \E expected \in SUBSET CanonicalKeys : expected_keys' = expected
    /\ found_keys' = Keys(model_state)
    /\ pc' = "validate"
    /\ trace' = Append(trace, "construct")
    /\ UNCHANGED <<model_data_model, model_data_args, regression_data, heap,
                   orig_model, orig_heap, alphabet, model_args, model_state,
                   model_type, warned, strict, assigned, outcome, rwVars>>

\* the block under `if regression_data is None`
Validate ==
    /\ pc = "validate"
    /\ LET missing == MissingKeys(expected_keys, found_keys)
           unexpected == UnexpectedKeys(expected_keys, found_keys)
           error == missing # {} \/ unexpected # {}
       IN IF regression_data.present
          THEN /\ pc' = "load"
               /\ UNCHANGED <<outcome, warned>>
          ELSE IF error
          THEN /\ pc' = "done"
               /\ outcome' = "RuntimeError"
               /\ UNCHANGED warned
          ELSE /\ pc' = "load"
               /\ warned' = RegressionNotFound(found_keys)
               /\ UNCHANGED outcome
    /\ trace' = Append(trace, "validate")
    /\ UNCHANGED <<model_data_model, model_data_args, regression_data, heap,
                   orig_model, orig_heap, alphabet, model_args, model_state,
                   model_type, expected_keys, found_keys, strict, assigned,
                   rwVars>>

\* model.load_state_dict(model_state, strict=regression_data is not None)
\* and return model, alphabet
LoadStateDict ==
    /\ pc = "load"
    /\ strict' = IF regression_data.present THEN "True" ELSE "False"
    /\ IF regression_data.present /\ StrictMismatch(expected_keys, found_keys)
       THEN /\ outcome' = "RuntimeError"
            /\ UNCHANGED assigned
       ELSE /\ outcome' = "returned"
            /\ assigned' = AssignedFrom(expected_keys, model_state, heap)
    /\ pc' = "done"
    /\ trace' = Append(trace, "load_state_dict")
    /\ UNCHANGED <<model_data_model, model_data_args, regression_data, heap,
                   orig_model, orig_heap, alphabet, model_args, model_state,
                   model_type, expected_keys, found_keys, warned, rwVars>>

Next ==
    \/ Merge
    \/ BuildAlphabet
    \/ UpgradeRobertaLarge
    \/ ZeroMaskRow
    \/ UpgradeProteinBertBase
    \/ UpgradeMsaTransformer
    \/ UnknownArchitecture
    \/ ConstructModel
    \/ Validate
    \/ LoadStateDict

Spec == Init /\ [][Next]_vars

----------------------------------------------------------------------------
(* The rewriting lambdas applied to single keys *)

Frags ==
    {"encoder.", "sentence_encoder.", "decoder.", "encoder", "decoder",
     "row", "column", "ro", "w", "col", "umn", "x"}

ExampleKeys ==
    {"encoder.sentence_encoder.foo.weight", "plain.weight",
     "layer.rows_attn.weight", "layer.columns_attn.weight",
     "row_to_column"}

RECURSIVE FragStrings(_)
FragStrings(n) ==
    IF n = 0 THEN {""}
    ELSE LET prev == FragStrings(n - 1)
         IN prev \cup {p \o f : p \in prev, f \in Frags}

InitRewrite ==
    /\ pc = "idle"
    /\ model_data_model = <<>>
    /\ model_data_args = ArgsOf("roberta_large", "primary")
    /\ regression_data = NoRegression
    /\ heap = InitHeap
    /\ orig_model = model_data_model
    /\ orig_heap = heap
    /\ Idle
    /\ rw_key \in FragStrings(MaxFrags) \cup ExampleKeys
    /\ rw_out = rw_key
    /\ rw_op = "key"

ApplyRobertaLarge ==
    /\ rw_op = "key"
    /\ rw_out' = RewriteRobertaLarge(rw_key)
    /\ rw_op' = "roberta_large"
    /\ UNCHANGED <<rw_key, loadVars>>

ApplyProteinBertBase ==
    /\ rw_op = "key"
    /\ rw_out' = RewriteProteinBertBase(rw_key)
    /\ rw_op' = "protein_bert_base"
    /\ UNCHANGED <<rw_key, loadVars>>

ApplyMsaTransformer ==
    /\ rw_op = "key"
    /\ rw_out' = RewriteMsaTransformer(rw_key)
    /\ rw_op' = "msa_transformer"
    /\ UNCHANGED <<rw_key, loadVars>>

\* prs3 alone, applied once and then once more to its own result
ApplySwap ==
    /\ rw_op \in {"key", "swap1"}
    /\ rw_out' = prs3(rw_out)
    /\ rw_op' = IF rw_op = "key" THEN "swap1" ELSE "swap2"
    /\ UNCHANGED <<rw_key, loadVars>>

NextRewrite ==
    \/ ApplyRobertaLarge
    \/ ApplyProteinBertBase
    \/ ApplyMsaTransformer
    \/ ApplySwap

SpecRewrite == InitRewrite /\ [][NextRewrite]_vars

----------------------------------------------------------------------------
(* Properties *)

Reached(step) == \E i \in 1..Len(trace) : trace[i] = step
Present == regression_data.present
AuxKeys == Keys(regression_data.model)
Embed == "embed_tokens.weight"

RewriteFor(arch, k) ==
    IF arch = "roberta_large" THEN RewriteRobertaLarge(k)
    ELSE IF arch = "protein_bert_base" THEN RewriteProteinBertBase(k)
    ELSE RewriteMsaTransformer(k)

\* C1: once the expected and found key sets exist, the load fails with the
\* schema error exactly when (expected - found), less the two exempt
\* regression names if no auxiliary was given, is non-empty or
\* (found - expected) is non-empty; the assignment is strict exactly when
\* an auxiliary was given.
C1_SchemaErrorIff ==
    /\ (pc = "done" /\ Reached("construct")) =>
          ((outcome = "RuntimeError") <=>
             \/ ((expected_keys \ found_keys)
                   \ (IF Present THEN {} ELSE ExpectedMissing)) # {}
             \/ (found_keys \ expected_keys) # {})
    /\ (pc = "done" /\ Reached("construct")) =>
          outcome \in {"RuntimeError", "returned"}
    /\ Reached("load_state_dict") => (strict = "True" <=> Present)
    /\ (outcome = "returned" /\ Present) => expected_keys = found_keys

C1_Witness ==
    /\ pc = "done"
    /\ outcome = "RuntimeError"
    /\ Present
    /\ expected_keys \subseteq found_keys
    /\ (found_keys \ expected_keys) # {}

\* C2 (amended): when validation raised no error, the warning is emitted
\* exactly when no auxiliary was given and at least one of the two exempt
\* regression names is absent from the found keys.
C2_WarnIffAnyRegressionKeyNotFound ==
    (pc = "load" \/ Reached("load_state_dict")) =>
        (warned <=> (~Present /\ (ExpectedMissing \ found_keys) # {}))

C2_Witness ==
    /\ outcome = "returned"
    /\ warned
    /\ "contact_head.regression.weight" \in found_keys
    /\ "contact_head.regression.bias" \in expected_keys \ found_keys

\* C2 (as stated): the warning is emitted exactly when no auxiliary was
\* given and both exempt names are in expected - found.
C2_WarnIffBothInMissing ==
    (pc = "load" \/ Reached("load_state_dict")) =>
        (warned <=> (~Present
                     /\ ExpectedMissing \subseteq (expected_keys \ found_keys)))

\* C3 (amended): with an unknown architecture the load fails with the
\* unknown-architecture error before any rewriting, mask zeroing, model
\* construction, validation or assignment; the merge has already run, so
\* the primary's parameters carry every entry of a present auxiliary.
C3_UnknownArchFailsAfterMerge ==
    (Arch \notin KnownArchs /\ pc \notin {"start", "alphabet", "resolve"}) =>
        /\ pc = "done"
        /\ outcome = "ValueError"
        /\ trace = <<"merge", "alphabet", "raise">>
        /\ model_state = <<>>
        /\ model_args = <<>>
        /\ model_type = "None"
        /\ expected_keys = {}
        /\ Present =>
              /\ AuxKeys \subseteq Keys(model_data_model)
              /\ \A k \in AuxKeys :
                    Get(model_data_model, k) = Get(regression_data.model, k)

C3_Witness ==
    /\ outcome = "ValueError"
    /\ Present
    /\ model_data_model # orig_model

\* C3 (as stated): on the unknown-architecture path the primary's
\* parameters are not overlaid with the auxiliary's and nothing is rewritten.
C3_UnknownArchNoMerge ==
    outcome = "ValueError" =>
        /\ model_data_model = orig_model
        /\ model_state = <<>>

\* C4: after the merge the primary's parameters are the original ones with
\* every auxiliary key set to the auxiliary's value, keys only in the
\* primary are kept, without an auxiliary they are unchanged, and the
\* configuration and architecture used are the primary's.
C4_MergeOverlay ==
    /\ pc \notin {"start", "idle"} =>
          /\ Keys(model_data_model) =
                Keys(orig_model) \cup (IF Present THEN AuxKeys ELSE {})
          /\ \A k \in Keys(model_data_model) :
                Get(model_data_model, k) =
                   IF Present /\ k \in AuxKeys
                   THEN Get(regression_data.model, k)
                   ELSE Get(orig_model, k)
          /\ ~Present => model_data_model = orig_model
    /\ \A i \in 1..Len(model_args) :
          model_args[i][2] \in {Arch, "primary"}
    /\ alphabet \in {"None", Arch}

C4_Witness ==
    /\ Reached("rewrite")
    /\ Present
    /\ Keys(orig_model) \cap AuxKeys # {}
    /\ Keys(orig_model) \ AuxKeys # {}
    /\ \E k \in Keys(orig_model) \cap AuxKeys :
          Get(model_data_model, k) # Get(orig_model, k)

\* C5: when the load has returned or failed, the primary's parameter
\* mapping and every tensor of the two checkpoints are as before the call.
C5_InputsNotMutated ==
    pc = "done" => (model_data_model = orig_model /\ heap = orig_heap)

\* C6: only roberta_large zeroes the mask row of embed_tokens.weight; it
\* does so after rewriting and before construction, validation and
\* assignment, and the returned model holds the zeroed row; for
\* protein_bert_base and msa_transformer every tensor is assigned untouched.
C6_MaskRowZeroedOnlyForRoberta ==
    /\ Reached("mask") => Arch = "roberta_large"
    /\ (Arch = "roberta_large" /\ Reached("construct")) =>
          /\ SubSeq(trace, 3, 5) = <<"rewrite", "mask", "construct">>
          /\ heap[Get(model_state, Embed)][MaskIdx] = 0
    /\ (Arch = "roberta_large" /\ outcome = "returned") =>
          /\ Embed \in expected_keys
          /\ assigned[Embed][MaskIdx] = 0
    /\ (Arch \in {"protein_bert_base", "msa_transformer"}) =>
          /\ heap = orig_heap
          /\ outcome = "returned" =>
                \A k \in expected_keys \cap found_keys :
                    assigned[k] = orig_heap[Get(model_state, k)]

C6_Witness ==
    /\ Arch = "roberta_large"
    /\ outcome = "returned"
    /\ assigned[Embed][MaskIdx] = 0
    /\ orig_heap[Get(model_state, Embed)][MaskIdx] # 0

\* prefix-only stripping
StripPrefix(s, p) ==
    IF Len(s) >= Len(p) /\ SubSeq(s, 1, Len(p)) = p
    THEN SubSeq(s, Len(p) + 1, Len(s))
    ELSE s
StripEncoderPrefixes(s) ==
    StripPrefix(StripPrefix(s, "encoder."), "sentence_encoder.")

\* C7: the parameter-key rewrite strips only leading prefixes: a leading
\* 'encoder.' then a leading 'sentence_encoder.' for roberta_large and
\* msa_transformer (after its row/column swap), a leading 'decoder.' for
\* protein_bert_base; any other key is unchanged.
C7_RewriteStripsLeadingPrefixOnly ==
    /\ rw_op = "roberta_large" => rw_out = StripEncoderPrefixes(rw_key)
    /\ rw_op = "protein_bert_base" => rw_out = StripPrefix(rw_key, "decoder.")
    /\ rw_op = "msa_transformer" => rw_out = StripEncoderPrefixes(prs3(rw_key))

\* C8: after merge and rewrite, whenever a primary key and an auxiliary key
\* rewrite to the same canonical name, the tensor under that name is the
\* auxiliary's.
C8_AuxWinsOnCanonicalNames ==
    (Reached("rewrite") /\ Present) =>
        \A kp \in Keys(orig_model), ka \in AuxKeys :
            RewriteFor(Arch, kp) = RewriteFor(Arch, ka) =>
                Get(model_state, RewriteFor(Arch, ka))[1] = "auxiliary"

\* C9: on a key containing exactly one of 'row' and 'column' the swap
\* applied twice gives the key back, and on a key containing both only
\* row -> column is applied.
C9_SwapInvolution ==
    /\ (rw_op = "swap2" /\ (In("row", rw_key) # In("column", rw_key))) =>
          rw_out = rw_key
    /\ (rw_op = "swap1" /\ In("row", rw_key) /\ In("column", rw_key)) =>
          rw_out = Replace(rw_key, "row", "column")

C9_Witness ==
    /\ rw_op = "swap2"
    /\ rw_key = "layer.columns_attn.weight"
    /\ rw_out = rw_key

\* C10: for roberta_large without a rewritten key 'embed_tokens.weight' the
\* load aborts at the mask-index step with a key error: no model is
\* constructed, no validation runs, no key sets are computed and nothing is
\* returned.
C10_MissingEmbedAbortsAtMask ==
    (Arch = "roberta_large" /\ Reached("mask")
       /\ Embed \notin Keys(model_state)) =>
        /\ pc = "done"
        /\ outcome = "KeyError"
        /\ trace = <<"merge", "alphabet", "rewrite", "mask">>
        /\ expected_keys = {}
        /\ found_keys = {}
        /\ strict = "None"
        /\ ~warned

C10_Witness ==
    /\ outcome = "KeyError"
    /\ model_state # <<>>

====
